---- MODULE Spec2Model ----
(***************************************************************************)
(* Model of frontend/App.jsx: the hotspot loader effect, the asynchronous  *)
(* handleGetRoute handler (split at its two awaits), riskScore and the     *)
(* ranking of scored routes.  Coordinates are [lng, lat] pairs of integers *)
(* on a small planar grid; turf's predicates are computed on them, for     *)
(* polygons of one ring (no holes).  A call of handleGetRoute reads the    *)
(* hotspotsGeo of the render it was created in, so it keeps the value seen *)
(* at the click.  The effect that redraws the hotspot layer (52-66) and    *)
(* components/MapWithSaferRouting.jsx take no part in scoring and are left *)
(* out.                                                                    *)
(***************************************************************************)
EXTENDS Integers, Sequences, FiniteSets, TLC

VARIABLES timeMode, effectiveMode, hotspotsGeo, fetches, nFetch, inv, pins, routeLayer, status

vars == <<timeMode, effectiveMode, hotspotsGeo, fetches, nFetch, inv, pins, routeLayer, status>>

-----------------------------------------------------------------------------
(* Bounds of the model. *)

\* candidate routes in one routing response
MaxRoutes == 3
\* clicks on "Get Safer Route"
MaxClicks == 2
\* hotspot fetches started over a run (the mount's fetch included)
MaxFetches == 3

-----------------------------------------------------------------------------
(* Planar geometry on integer coordinates (turf.booleanIntersects). *)

Min2(a, b) == IF a < b THEN a ELSE b
Max2(a, b) == IF a > b THEN a ELSE b

\* z-component of (a - o) x (b - o)
Cross(o, a, b) == (a[1] - o[1]) * (b[2] - o[2]) - (a[2] - o[2]) * (b[1] - o[1])

Sign(n) == IF n > 0 THEN 1 ELSE IF n < 0 THEN -1 ELSE 0

\* p lies on the closed segment a-b
OnSegment(p, a, b) ==
    /\ Cross(a, b, p) = 0
    /\ Min2(a[1], b[1]) <= p[1] /\ p[1] <= Max2(a[1], b[1])
    /\ Min2(a[2], b[2]) <= p[2] /\ p[2] <= Max2(a[2], b[2])

\* the closed segments a-b and c-d share a point
SegmentsIntersect(a, b, c, d) ==
    \/ /\ Sign(Cross(a, b, c)) * Sign(Cross(a, b, d)) < 0
       /\ Sign(Cross(c, d, a)) * Sign(Cross(c, d, b)) < 0
    \/ OnSegment(c, a, b) \/ OnSegment(d, a, b)
    \/ OnSegment(a, c, d) \/ OnSegment(b, c, d)

\* the edge ring[i]-ring[i+1] is crossed by the ray from p towards +x
RayCrosses(p, a, b) ==
    /\ (a[2] > p[2]) # (b[2] > p[2])
    /\ IF b[2] > a[2]
       THEN (p[1] - a[1]) * (b[2] - a[2]) < (b[1] - a[1]) * (p[2] - a[2])
       ELSE (p[1] - a[1]) * (b[2] - a[2]) > (b[1] - a[1]) * (p[2] - a[2])

\* booleanPointInPolygon with the boundary included, on one closed ring
PointInRing(p, ring) ==
    \/ \E i \in 1..(Len(ring) - 1) : OnSegment(p, ring[i], ring[i + 1])
    \/ Cardinality({i \in 1..(Len(ring) - 1) : RayCrosses(p, ring[i], ring[i + 1])}) % 2 = 1

\* turf.booleanIntersects(lineString, polygon): some vertex of the line is in the
\* polygon, or some segment of the line meets some edge of its ring
booleanIntersects(line, poly) ==
    LET c == line.coordinates
        ring == poly.coordinates[1]
    IN \/ \E k \in 1..Len(c) : PointInRing(c[k], ring)
       \/ \E k \in 1..(Len(c) - 1) : \E i \in 1..(Len(ring) - 1) :
            SegmentsIntersect(c[k], c[k + 1], ring[i], ring[i + 1])

-----------------------------------------------------------------------------
(* turf helpers. *)

\* the message turf.polygon throws on a ring, "" when the ring is accepted
RingError(ring) ==
    IF Len(ring) < 4 THEN "Each LinearRing of a Polygon must have 4 or more Positions."
    ELSE IF ring[Len(ring)] # ring[1] THEN "First and last Position are not equivalent."
    ELSE ""

\* turf.polygon(coordinates): the first ring it rejects decides the message
RECURSIVE polygonError(_, _)
polygonError(coordinates, i) ==
    IF i > Len(coordinates) THEN ""
    ELSE IF RingError(coordinates[i]) # "" THEN RingError(coordinates[i])
    ELSE polygonError(coordinates, i + 1)

polygon(coordinates) == [type |-> "Polygon", coordinates |-> coordinates]

lineString(coordinates) == [type |-> "LineString", coordinates |-> coordinates]

-----------------------------------------------------------------------------
(* Values. *)

\* JavaScript's null
NULL == [type |-> "null"]

\* wall-clock hours new Date().getHours() is tried with
Hours == {0, 4, 5, 12, 20, 21, 23}

Modes == {"day", "night"}

\* closed ring of the axis-parallel rectangle with corners (x0,y0) and (x1,y1)
Square(x0, y0, x1, y1) == <<<<x0, y0>>, <<x1, y0>>, <<x1, y1>>, <<x0, y1>>, <<x0, y0>>>>

Feature(geomType, coordinates) ==
    [type |-> "Feature", geometry |-> [type |-> geomType, coordinates |-> coordinates]]

\* five disjoint hotspot zones
Z1 == Feature("Polygon", <<Square(0, 0, 4, 4)>>)
Z2 == Feature("Polygon", <<Square(6, 0, 10, 4)>>)
Z3 == Feature("Polygon", <<Square(0, 6, 4, 10)>>)
Z4 == Feature("Polygon", <<Square(6, 6, 10, 10)>>)
Z5 == Feature("Polygon", <<Square(12, 0, 14, 4)>>)
\* entries that are not usable polygons
ShortRing == Feature("Polygon", <<<<<<6, 0>>, <<10, 0>>, <<6, 0>>>>>>)
OpenRing == Feature("Polygon", <<<<<<6, 6>>, <<10, 6>>, <<10, 10>>, <<6, 10>>>>>>)
PointFeature == Feature("Point", <<8, 3>>)
NoGeometry == [type |-> "Feature", geometry |-> NULL]

\* feature lists a hotspot file may hold
FeatureLists ==
    { <<>>,
      <<Z1, Z2, Z3, Z4, Z5>>,
      <<Z2, Z4>>,
      <<Z2, PointFeature, NoGeometry, Z4>>,
      <<Z2, ShortRing, Z4>>,
      <<OpenRing, Z2>>,
      <<Z4, Z2, OpenRing>> }

FileName(mode) == IF mode = "night" THEN "/hotspots_night_ml.geojson" ELSE "/hotspots_day_ml.geojson"

\* every JSON value a hotspot file is tried with: feature collections, and an
\* object without a "features" member
FileContents(mode) ==
    {[type |-> "FeatureCollection", name |-> FileName(mode), features |-> fs] : fs \in FeatureLists}
        \cup {[type |-> "Object", name |-> FileName(mode)]}

\* what the two deployed files hold in the runs of the whole application
Served(mode) ==
    IF mode = "night"
    THEN {[type |-> "FeatureCollection", name |-> FileName(mode), features |-> fs] :
            fs \in {<<Z1, Z2, Z3, Z4, Z5>>, <<Z2, ShortRing, Z4>>}}
    ELSE {[type |-> "FeatureCollection", name |-> FileName(mode), features |-> <<Z2, Z4>>]}

\* geocoded end points, [lng, lat]
PointA == <<5, 5>>
PointB == <<11, 5>>

\* route geometries used below: clear of every zone (two geometries), through Z2
\* with a vertex inside, through Z2 and Z4, across Z2 with no vertex inside,
\* wholly inside Z1
\* one route of an OSRM response (duration follows distance at 10 m/s)
Route(coordinates, distance) ==
    [geometry |-> [type |-> "LineString", coordinates |-> coordinates],
     distance |-> distance, duration |-> distance \div 10]

ClearShort == Route(<<PointA, PointB>>, 4000)
ClearLong == Route(<<PointA, PointB>>, 4500)
ClearDetour == Route(<<PointA, <<5, 11>>, <<11, 11>>, PointB>>, 4500)
DipZ2 == Route(<<PointA, <<8, 3>>, PointB>>, 4000)
AcrossZ2 == Route(<<PointA, <<5, 2>>, <<11, 2>>, PointB>>, 4500)
DipZ2Z4 == Route(<<PointA, <<8, 3>>, <<8, 8>>, PointB>>, 5000)
InsideZ1 == Route(<<<<1, 1>>, <<3, 2>>>>, 4000)

\* the candidate routes responses are built from
AllRoutes == {ClearShort, ClearLong, ClearDetour, DipZ2, AcrossZ2, DipZ2Z4, InsideZ1}

RECURSIVE SeqsUpTo(_, _)
SeqsUpTo(S, n) ==
    IF n = 0 THEN {<<>>}
    ELSE LET shorter == SeqsUpTo(S, n - 1)
         IN shorter \cup {Append(s, x) : s \in {t \in shorter : Len(t) = n - 1}, x \in S}

\* OSRM response bodies: js.code, js.message ("" when absent), js.routes
Response(code, message, routes) == [code |-> code, message |-> message, routes |-> routes]

AllResponses ==
    {Response("Ok", "", rs) : rs \in SeqsUpTo(AllRoutes, MaxRoutes)}
        \cup {Response("NoRoute", "Impossible route between points", <<>>),
              Response("InvalidQuery", "", <<>>),
              Response("NoRoute", "Impossible route between points", <<ClearShort>>)}

\* the responses the whole application is run with
SomeResponses ==
    {Response("Ok", "", rs) : rs \in {<<>>, <<DipZ2Z4, ClearShort, ClearLong>>, <<DipZ2, AcrossZ2>>}}
        \cup {Response("NoRoute", "Impossible route between points", <<>>),
              Response("NoRoute", "Impossible route between points", <<ClearShort>>)}

-----------------------------------------------------------------------------
(* riskScore, App.jsx 78-87.  A call either returns a number or throws what  *)
(* turf.polygon throws: [threw, message, value].                             *)

Returned(v) == [threw |-> FALSE, message |-> "", value |-> v]
Thrown(m) == [threw |-> TRUE, message |-> m, value |-> 0]

\* !hotspotFC?.features?.length
NoFeatures(hotspotFC) ==
    \/ hotspotFC = NULL
    \/ "features" \notin DOMAIN hotspotFC
    \/ Len(hotspotFC.features) = 0

\* the for-of loop from feature i on, with `score` counted so far
RECURSIVE riskLoop(_, _, _, _)
riskLoop(routeGeoJsonLine, features, i, score) ==
    IF i > Len(features) THEN Returned(score)
    ELSE LET f == features[i]
         IN IF f.geometry.type # "Polygon"
            THEN riskLoop(routeGeoJsonLine, features, i + 1, score)
            ELSE IF polygonError(f.geometry.coordinates, 1) # ""
            THEN Thrown(polygonError(f.geometry.coordinates, 1))
            ELSE IF booleanIntersects(routeGeoJsonLine, polygon(f.geometry.coordinates))
            THEN riskLoop(routeGeoJsonLine, features, i + 1, score + 1)
            ELSE riskLoop(routeGeoJsonLine, features, i + 1, score)

\* riskScore leaving its loop at the first intersecting polygon
riskScoreFirstHit(routeGeoJsonLine, hotspotFC) ==
    IF NoFeatures(hotspotFC) THEN Returned(0)
    ELSE LET res == riskLoop(routeGeoJsonLine, hotspotFC.features, 1, 0)
         IN IF res.threw THEN res ELSE Returned(Min2(res.value, 1))

\* riskScore guarding against a null collection only: for (... of undefined) throws
riskScoreNullOnly(routeGeoJsonLine, hotspotFC) ==
    IF hotspotFC = NULL THEN Returned(0)
    ELSE IF "features" \notin DOMAIN hotspotFC THEN Thrown("hotspotFC.features is not iterable")
    ELSE riskLoop(routeGeoJsonLine, hotspotFC.features, 1, 0)

riskScore(routeGeoJsonLine, hotspotFC) ==
    IF NoFeatures(hotspotFC) THEN Returned(0)
    ELSE riskLoop(routeGeoJsonLine, hotspotFC.features, 1, 0)

-----------------------------------------------------------------------------
(* Scoring and ranking, App.jsx 122-138. *)

\* routes.map(...): element i keeps the route object it was made from (idx is
\* that object's identity: its position in the response)
scoreRoute(routes, i, hotspotFC) ==
    LET r == routes[i]
        ls == lineString(r.geometry.coordinates)
    IN [route |-> r, idx |-> i, line |-> ls, risk |-> riskScore(ls, hotspotFC).value,
        distance |-> r.distance, duration |-> r.duration]

\* the first exception the map raises, "" when every route is scored
RECURSIVE mapError(_, _, _)
mapError(routes, i, hotspotFC) ==
    IF i > Len(routes) THEN ""
    ELSE LET res == riskScore(lineString(routes[i].geometry.coordinates), hotspotFC)
         IN IF res.threw THEN res.message ELSE mapError(routes, i + 1, hotspotFC)

mapScored(routes, hotspotFC) == [i \in 1..Len(routes) |-> scoreRoute(routes, i, hotspotFC)]

\* the comparator without its tie-break on distance
compareRiskOnly(a, b) == a.risk - b.risk

\* the comparator handed to scored.sort
compare(a, b) ==
    IF a.risk # b.risk THEN a.risk - b.risk
    ELSE b.distance - a.distance

\* an insertion that puts x before the elements it ties with
RECURSIVE insertBeforeEqual(_, _)
insertBeforeEqual(s, x) ==
    IF s = <<>> THEN <<x>>
    ELSE IF compare(x, Head(s)) <= 0 THEN <<x>> \o s
    ELSE <<Head(s)>> \o insertBeforeEqual(Tail(s), x)

\* an insertion that drops x when it ties with an element already there
RECURSIVE insertUnique(_, _)
insertUnique(s, x) ==
    IF s = <<>> THEN <<x>>
    ELSE IF compare(x, Head(s)) = 0 THEN s
    ELSE IF compare(x, Head(s)) < 0 THEN <<x>> \o s
    ELSE <<Head(s)>> \o insertUnique(Tail(s), x)

\* x put into the sorted s before the first element it must precede
RECURSIVE insertSorted(_, _)
insertSorted(s, x) ==
    IF s = <<>> THEN <<x>>
    ELSE IF compare(x, Head(s)) < 0 THEN <<x>> \o s
    ELSE <<Head(s)>> \o insertSorted(Tail(s), x)

\* Array.prototype.sort: stable (ECMAScript 2019), by the comparator
RECURSIVE sort(_)
sort(s) ==
    IF s = <<>> THEN <<>>
    ELSE insertSorted(sort(SubSeq(s, 1, Len(s) - 1)), s[Len(s)])

-----------------------------------------------------------------------------
(* The component's state. *)

\* the text shown in the status box; risk and max fill the one templated message
Status(text) == [text |-> text, message |-> "", risk |-> 0, max |-> 0]
\* "Error: " + (e?.message || String(e))
ErrorStatus(message) ==
    [text |-> "Error: ", message |-> IF message # "" THEN message ELSE "Error", risk |-> 0, max |-> 0]
SelectedStatus(risk, max) ==
    IF risk = 0 THEN Status("Selected a route that avoids all hotspot polygons.")
    ELSE [text |-> "Selected safest route", message |-> "", risk |-> risk, max |-> max]

\* h >= 21 || h <= 4
nowIsNight(h) == h >= 21 \/ h <= 4

\* the useMemo of effectiveMode, recomputed at hour h
computeEffectiveMode(mode, h) ==
    IF mode = "day" \/ mode = "night" THEN mode
    ELSE IF nowIsNight(h) THEN "night" ELSE "day"

Clicks == 1..MaxClicks

\* one call of handleGetRoute: where it stands ("returned": the return of line
\* 106, "caught": the catch of line 156, "completed": the end of the try block),
\* the hotspotsGeo its closure holds, the routing response it received (NULL:
\* none) and its local `scored` after the sort
Idle == [pc |-> "idle", hs |-> NULL, js |-> NULL, scored |-> <<>>]

\* the two markers a call adds to the pin layer, positions as [lat, lng]
Markers(i, A, B) ==
    {[req |-> i, popup |-> "Origin", latlng |-> <<A[2], A[1]>>],
     [req |-> i, popup |-> "Destination", latlng |-> <<B[2], B[1]>>]}

\* coordinates.map(([lng, lat]) => [lat, lng])
latlngs(coordinates) == [k \in 1..Len(coordinates) |-> <<coordinates[k][2], coordinates[k][1]>>]

\* scored.forEach: one polyline per scored route, the first one blue
Polylines(i, scored) ==
    {[req |-> i, idx |-> k, latlngs |-> latlngs(scored[k].route.geometry.coordinates),
      color |-> IF k = 1 THEN "#1e88e5" ELSE "#9e9e9e"] : k \in 1..Len(scored)}

RECURSIVE MaxRisk(_)
MaxRisk(scored) ==
    IF Len(scored) = 1 THEN scored[1].risk
    ELSE Max2(scored[1].risk, MaxRisk(Tail(scored)))

\* fetchRoutes testing the route list only, not js.code
fetchRoutesThrowsIfEmpty(js) == Len(js.routes) = 0

\* fetchRoutes throws on this response body
fetchRoutesThrows(js) == js.code # "Ok" \/ Len(js.routes) = 0

Init ==
    /\ timeMode = "auto"
    /\ \E h \in Hours :
        /\ effectiveMode = computeEffectiveMode("auto", h)
        /\ fetches = {[id |-> 1, url |-> FileName(computeEffectiveMode("auto", h))]}
    /\ nFetch = 1
    /\ hotspotsGeo = NULL
    /\ inv = [i \in Clicks |-> Idle]
    /\ pins = {}
    /\ routeLayer = {}
    /\ status = Status("Enter origin & destination names.")

-----------------------------------------------------------------------------
(* The time-mode select and the hotspot loader effect, App.jsx 38-49, 177. *)

\* onChange of the select: setTimeMode, the memo, and the effect when the
\* effective mode changed
SetTimeMode(mode, h) ==
    /\ mode # timeMode
    /\ timeMode' = mode
    /\ effectiveMode' = computeEffectiveMode(mode, h)
    /\ IF effectiveMode' # effectiveMode
       THEN /\ nFetch < MaxFetches
            /\ nFetch' = nFetch + 1
            /\ fetches' = fetches \cup {[id |-> nFetch + 1, url |-> FileName(effectiveMode')]}
       ELSE UNCHANGED <<nFetch, fetches>>
    /\ UNCHANGED <<hotspotsGeo, inv, pins, routeLayer, status>>

\* .then(r => r.json()).then(setHotspotsGeo)
HotspotsLoaded(f, body) ==
    /\ f \in fetches
    /\ body.name = f.url
    /\ hotspotsGeo' = body
    /\ fetches' = fetches \ {f}
    /\ UNCHANGED <<timeMode, effectiveMode, nFetch, inv, pins, routeLayer, status>>

\* .catch(() => setHotspotsGeo(null))
HotspotsFailed(f) ==
    /\ f \in fetches
    /\ hotspotsGeo' = NULL
    /\ fetches' = fetches \ {f}
    /\ UNCHANGED <<timeMode, effectiveMode, nFetch, inv, pins, routeLayer, status>>

-----------------------------------------------------------------------------
(* handleGetRoute, App.jsx 100-158, one action per stretch between awaits. *)

\* the click: lines 101-103 up to the await; the call keeps the hotspotsGeo of
\* the render whose handler was clicked
Click(i) ==
    /\ inv[i].pc = "idle"
    /\ \A j \in Clicks : j < i => inv[j].pc # "idle"
    /\ inv' = [inv EXCEPT ![i] = [@ EXCEPT !.pc = "geocoding", !.hs = hotspotsGeo]]
    /\ status' = Status("Geocoding places...")
    /\ UNCHANGED <<timeMode, effectiveMode, hotspotsGeo, fetches, nFetch, pins, routeLayer>>

\* both geocode calls resolved: lines 104-119 up to the await
Geocoded(i, A, B) ==
    /\ inv[i].pc = "geocoding"
    /\ IF A = NULL \/ B = NULL
       THEN /\ status' = Status("Could not geocode one of the places.")
            /\ inv' = [inv EXCEPT ![i].pc = "returned"]
            /\ UNCHANGED <<pins, routeLayer>>
       ELSE /\ pins' = Markers(i, A, B)
            /\ routeLayer' = {}
            /\ status' = Status("Fetching routes & scoring risk...")
            /\ inv' = [inv EXCEPT ![i].pc = "routing"]
    /\ UNCHANGED <<timeMode, effectiveMode, hotspotsGeo, fetches, nFetch>>

\* a geocode request rejected: the catch of line 155
GeocodeRejected(i) ==
    /\ inv[i].pc = "geocoding"
    /\ status' = ErrorStatus("Failed to fetch")
    /\ inv' = [inv EXCEPT ![i].pc = "caught"]
    /\ UNCHANGED <<timeMode, effectiveMode, hotspotsGeo, fetches, nFetch, pins, routeLayer>>

\* the routing response arrived: fetchRoutes 95-97, then lines 122-157
RoutesFetched(i, js) ==
    /\ inv[i].pc = "routing"
    /\ IF fetchRoutesThrows(js)
       THEN /\ status' = ErrorStatus(IF js.message # "" THEN js.message ELSE "Routing failed")
            /\ inv' = [inv EXCEPT ![i] = [@ EXCEPT !.pc = "caught", !.js = js]]
            /\ UNCHANGED routeLayer
       ELSE IF mapError(js.routes, 1, inv[i].hs) # ""
       THEN /\ status' = ErrorStatus(mapError(js.routes, 1, inv[i].hs))
            /\ inv' = [inv EXCEPT ![i] = [@ EXCEPT !.pc = "caught", !.js = js]]
            /\ UNCHANGED routeLayer
       ELSE LET scored == sort(mapScored(js.routes, inv[i].hs))
                best == scored[1]
            IN /\ routeLayer' = routeLayer \cup Polylines(i, scored)
               /\ status' = SelectedStatus(best.risk, MaxRisk(scored))
               /\ inv' = [inv EXCEPT ![i] = [@ EXCEPT !.pc = "completed", !.js = js, !.scored = scored]]
    /\ UNCHANGED <<timeMode, effectiveMode, hotspotsGeo, fetches, nFetch, pins>>

\* the routing request rejected: the catch of line 155
RoutesRejected(i) ==
    /\ inv[i].pc = "routing"
    /\ status' = ErrorStatus("Failed to fetch")
    /\ inv' = [inv EXCEPT ![i].pc = "caught"]
    /\ UNCHANGED <<timeMode, effectiveMode, hotspotsGeo, fetches, nFetch, pins, routeLayer>>

-----------------------------------------------------------------------------
(* The whole application. *)

Next ==
    \/ \E mode \in {"auto", "day", "night"}, h \in Hours : SetTimeMode(mode, h)
    \/ \E f \in fetches : \E mode \in Modes : \E body \in Served(mode) : HotspotsLoaded(f, body)
    \/ \E f \in fetches : HotspotsFailed(f)
    \/ \E i \in Clicks : Click(i)
    \/ \E i \in Clicks : \E A \in {NULL, PointA}, B \in {NULL, PointB} : Geocoded(i, A, B)
    \/ \E i \in Clicks : GeocodeRejected(i)
    \/ \E i \in Clicks : \E js \in SomeResponses : RoutesFetched(i, js)
    \/ \E i \in Clicks : RoutesRejected(i)

Spec == Init /\ [][Next]_vars

-----------------------------------------------------------------------------
(* Scoring and selection alone: the page was mounted by day, its hotspot      *)
(* fetch ended with any body (or failed), and the first call stands at its   *)
(* routing await; the routing response is any response.                      *)

InitSelect ==
    /\ timeMode = "auto"
    /\ effectiveMode = "day"
    /\ hotspotsGeo \in FileContents("day") \cup {NULL}
    /\ fetches = {}
    /\ nFetch = 1
    /\ inv = [i \in Clicks |-> IF i = 1 THEN [Idle EXCEPT !.pc = "routing", !.hs = hotspotsGeo] ELSE Idle]
    /\ pins = Markers(1, PointA, PointB)
    /\ routeLayer = {}
    /\ status = Status("Fetching routes & scoring risk...")

NextSelect ==
    \/ \E js \in AllResponses : RoutesFetched(1, js)
    \/ RoutesRejected(1)

SpecSelect == InitSelect /\ [][NextSelect]_vars

-----------------------------------------------------------------------------
(* Properties. *)

\* the call received a usable routing response: code "Ok" and at least one route
GotRoutes(i) ==
    /\ inv[i].js # NULL
    /\ inv[i].js.code = "Ok"
    /\ Len(inv[i].js.routes) > 0

\* the risk riskScore gives candidate k of call i
CandidateRisk(i, k) ==
    riskScore(lineString(inv[i].js.routes[k].geometry.coordinates), inv[i].hs).value

\* the polygons of a collection that intersect a line, counted as a set
Intersecting(line, features) ==
    {j \in 1..Len(features) :
        /\ features[j].geometry.type = "Polygon"
        /\ booleanIntersects(line, polygon(features[j].geometry.coordinates))}

\* C1: the winner (scored[0] after the sort) has the minimum risk among all
\* candidates and, among the candidates of that risk, the maximum distance.
WinnerIsSafestThenLongest ==
    \A i \in Clicks : inv[i].pc = "completed" =>
        LET routes == inv[i].js.routes
            best == inv[i].scored[1]
        IN /\ best.route = routes[best.idx]
           /\ best.risk = CandidateRisk(i, best.idx)
           /\ best.distance = routes[best.idx].distance
           /\ \A k \in 1..Len(routes) : CandidateRisk(i, k) >= best.risk
           /\ \A k \in 1..Len(routes) :
                CandidateRisk(i, k) = best.risk => routes[k].distance <= best.distance

\* C1 witness: risks [2, 0, 0] with distances [5000, 4000, 4500] were ranked and the
\* winner is the risk-0 route of 4500 m.
WitnessWinner ==
    \E i \in Clicks :
        /\ inv[i].pc = "completed"
        /\ inv[i].js.routes = <<DipZ2Z4, ClearShort, ClearLong>>
        /\ CandidateRisk(i, 1) = 2 /\ CandidateRisk(i, 2) = 0 /\ CandidateRisk(i, 3) = 0
        /\ inv[i].scored[1].route = ClearLong
        /\ inv[i].scored[1].risk = 0

\* every Polygon feature of the collection a call scores against is a ring
\* turf.polygon accepts
WellFormed(i) ==
    \/ inv[i].hs = NULL
    \/ "features" \notin DOMAIN inv[i].hs
    \/ \A j \in 1..Len(inv[i].hs.features) :
            inv[i].hs.features[j].geometry.type = "Polygon"
                => polygonError(inv[i].hs.features[j].geometry.coordinates, 1) = ""

HotspotsAbsent(i) ==
    \/ inv[i].hs = NULL
    \/ "features" \notin DOMAIN inv[i].hs
    \/ inv[i].hs.features = <<>>

\* C3: with the hotspot collection absent or empty, a call that received routes
\* completes, every route scores 0 and the winner is a longest route.
AbsentHotspotsLongestWins ==
    \A i \in Clicks :
        (inv[i].pc \in {"completed", "caught"} /\ GotRoutes(i) /\ HotspotsAbsent(i)) =>
            /\ inv[i].pc = "completed"
            /\ Len(inv[i].scored) = Len(inv[i].js.routes)
            /\ \A k \in 1..Len(inv[i].scored) : inv[i].scored[k].risk = 0
            /\ \A k \in 1..Len(inv[i].js.routes) :
                inv[i].js.routes[k].distance <= inv[i].scored[1].distance

\* C3 witness: with hotspotsGeo null, a shorter route listed first lost to a longer one.
WitnessAbsentHotspots ==
    \E i \in Clicks :
        /\ inv[i].pc = "completed"
        /\ inv[i].hs = NULL
        /\ inv[i].js.routes = <<DipZ2, DipZ2Z4, AcrossZ2>>
        /\ inv[i].scored[1].route = DipZ2Z4

\* C4: a polygon that is no valid closed ring is skipped: a call that received
\* routes completes, ranks every candidate, counts the well-formed polygons that
\* intersect and reports a selection.
MalformedPolygonSkipped ==
    \A i \in Clicks :
        (inv[i].pc \in {"completed", "caught"} /\ GotRoutes(i)) =>
            /\ inv[i].pc = "completed"
            /\ Len(inv[i].scored) = Len(inv[i].js.routes)
            /\ \A k \in 1..Len(inv[i].scored) :
                LET s == inv[i].scored[k]
                    features == IF HotspotsAbsent(i) THEN <<>> ELSE inv[i].hs.features
                IN s.risk = Cardinality({j \in 1..Len(features) :
                        /\ features[j].geometry.type = "Polygon"
                        /\ polygonError(features[j].geometry.coordinates, 1) = ""
                        /\ booleanIntersects(s.line, polygon(features[j].geometry.coordinates))})
            /\ status.text \in {"Selected a route that avoids all hotspot polygons.",
                                "Selected safest route"}

\* C5: a response with a non-Ok code or an empty route list ends the call in the
\* catch: nothing was scored or ranked, the call drew no polyline, and the status
\* is an error carrying the response's message.
NoCandidatesIsAnError ==
    \A i \in Clicks :
        (/\ inv[i].pc \in {"completed", "caught"}
         /\ inv[i].js # NULL
         /\ (inv[i].js.code # "Ok" \/ Len(inv[i].js.routes) = 0)) =>
            /\ inv[i].pc = "caught"
            /\ inv[i].scored = <<>>
            /\ \A p \in routeLayer : p.req # i
            /\ status.text = "Error: "
            /\ status.message \in {inv[i].js.message, "Routing failed"}

\* C5 witness: an Ok response with an empty route list ended in the catch and was
\* reported as "Error: Routing failed", with the route layer left empty.
WitnessNoCandidates ==
    \E i \in Clicks :
        /\ inv[i].pc = "caught"
        /\ inv[i].js # NULL
        /\ inv[i].js.code = "Ok"
        /\ inv[i].js.routes = <<>>
        /\ routeLayer = {}
        /\ status = ErrorStatus("Routing failed")

\* C6: the ranked sequence holds every candidate of the response exactly once.
RankedIsPermutation ==
    \A i \in Clicks : inv[i].pc = "completed" =>
        LET routes == inv[i].js.routes
            scored == inv[i].scored
        IN /\ Len(scored) = Len(routes)
           /\ {scored[k].idx : k \in 1..Len(scored)} = 1..Len(routes)
           /\ \A k \in 1..Len(scored) : scored[k].route = routes[scored[k].idx]

\* C6 witness: three candidates, two of them the same route, were ranked in an
\* order other than the response's.
WitnessPermutation ==
    \E i \in Clicks :
        /\ inv[i].pc = "completed"
        /\ inv[i].js.routes = <<DipZ2, ClearLong, ClearLong>>
        /\ inv[i].scored[1].idx = 2 /\ inv[i].scored[2].idx = 3 /\ inv[i].scored[3].idx = 1

\* C7: candidates of equal risk and equal distance keep the order of the response.
RankingIsStable ==
    \A i \in Clicks : inv[i].pc = "completed" =>
        LET scored == inv[i].scored
        IN \A k, l \in 1..Len(scored) :
            (k < l /\ scored[k].risk = scored[l].risk /\ scored[k].distance = scored[l].distance)
                => scored[k].idx < scored[l].idx

\* C7 witness: two different routes tie for minimum risk and maximum distance and the
\* one listed first won.
WitnessStable ==
    \E i \in Clicks :
        /\ inv[i].pc = "completed"
        /\ inv[i].js.routes = <<ClearShort, ClearDetour, ClearLong>>
        /\ inv[i].scored[1].route = ClearDetour
        /\ inv[i].scored[2].route = ClearLong
        /\ inv[i].scored[1].risk = inv[i].scored[2].risk

\* C8: no call scores its candidates while the hotspot fetch of the current
\* effective mode is in flight.
ScoringWaitsForHotspots ==
    [][\A i \in Clicks :
        (/\ inv[i].pc = "routing"
         /\ inv'[i].pc \in {"completed", "caught"}
         /\ inv'[i].js # NULL
         /\ inv'[i].js.code = "Ok"
         /\ Len(inv'[i].js.routes) > 0)
            => ~ \E f \in fetches : f.url = FileName(effectiveMode)]_vars

\* C9: once no hotspot fetch is in flight, hotspotsGeo is the data set of the
\* current effective mode, or null.
LoadedHotspotsMatchMode ==
    fetches = {} => (hotspotsGeo = NULL \/ hotspotsGeo.name = FileName(effectiveMode))

\* C10: once every call has run to the end of its try block, the route layer holds
\* the polylines of one call only, one of them highlighted, and the pin layer holds
\* one origin and one destination marker.
OneRequestOnTheMap ==
    (/\ \A i \in Clicks : inv[i].pc \in {"idle", "completed"}
     /\ \E i \in Clicks : inv[i].pc = "completed") =>
        /\ Cardinality({p.req : p \in routeLayer}) = 1
        /\ Cardinality({p \in routeLayer : p.color = "#1e88e5"}) = 1
        /\ Cardinality({m \in pins : m.popup = "Origin"}) = 1
        /\ Cardinality({m \in pins : m.popup = "Destination"}) = 1

====
